---- MODULE Spec2Model ----
(***************************************************************************)
(* Model of examples/events_scorer.py: the two event-aware scorers          *)
(* process_aware_scorer and step_verification_scorer.                      *)
(*                                                                         *)
(* Score values are Python floats that are all multiples of 0.1 up to      *)
(* rounding; they are modelled as integers counting tenths (1.0 is 10,     *)
(* 0.1 is 1, 0.9000000000000001 is 9).                                      *)
(* Texts (target.text, state.output.completion) are sequences of           *)
(* characters; explanations are strings built by concatenation.           *)
(***************************************************************************)
EXTENDS Integers, Sequences, FiniteSets, TLC

VARIABLES events, target, completion, scorer, score

vars == <<events, target, completion, scorer, score>>

-----------------------------------------------------------------------------
(* Bounds of the explored inputs *)

MaxEvents == 4
MaxTargetLen == 1
MaxCompletionLen == 2

(* Program constants, in tenths *)
ONE == 10
ZERO == 0
BONUS == 1
PENALTY == 2
HALF == 5
PARTIAL == 3
EXCESSIVE == 3

-----------------------------------------------------------------------------
(* Inputs *)

FunctionNames == {"add", "multiply", "none"}

ToolEvent(f) == [kind |-> "ToolEvent", function |-> f]
ModelEvent == [kind |-> "ModelEvent"]
OtherEvent == [kind |-> "Event"]

Events == {ToolEvent(f) : f \in FunctionNames} \cup {ModelEvent, OtherEvent}

Chars == {"4", "2"}

SeqsUpTo(S, n) == UNION {[1..k -> S] : k \in 0..n}

-----------------------------------------------------------------------------
(* Python primitives used by the scorers *)

\* `t in c` for strings: t occurs as a contiguous substring of c
Contains(c, t) ==
    \E i \in 0..(Len(c) - Len(t)) : \A j \in 1..Len(t) : c[i + j] = t[j]

Max(a, b) == IF a >= b THEN a ELSE b
Min(a, b) == IF a <= b THEN a ELSE b

\* ', '.join(names)
RECURSIVE Join(_)
Join(names) ==
    IF Len(names) = 0 THEN ""
    ELSE IF Len(names) = 1 THEN names[1]
    ELSE names[1] \o ", " \o Join(Tail(names))

IsToolEvent(e) == e.kind = "ToolEvent"
IsModelEvent(e) == e.kind = "ModelEvent"

-----------------------------------------------------------------------------
(* process_aware_scorer.score *)

tool_events(evs) == SelectSeq(evs, IsToolEvent)

\* mutant: every event that is not a tool event is taken for a model event
IsNotToolEvent(e) == ~IsToolEvent(e)
model_events_any_other(evs) == SelectSeq(evs, IsNotToolEvent)

model_events(evs) == SelectSeq(evs, IsModelEvent)

\* mutant: names are pushed at the front instead of appended
tool_calls_reversed(tevs) == [i \in 1..Len(tevs) |-> tevs[Len(tevs) + 1 - i].function]

tool_calls(tevs) == [i \in 1..Len(tevs) |-> tevs[i].function]

\* base_score as first assigned (line 74)
base_score(tgt, compl) == IF Contains(compl, tgt) THEN ONE ELSE ZERO

\* mutant: the penalty is an elif of the bonus, so it replaces it
adjusted_score_exclusive(calls, base) ==
    IF Len(calls) > EXCESSIVE THEN base - PENALTY
    ELSE IF Len(calls) > 0 THEN base + BONUS ELSE base

\* mutant: the penalty already applies at three tool calls
adjusted_score_from_three(calls, base) ==
    LET bonused == IF Len(calls) > 0 THEN base + BONUS ELSE base
    IN  IF Len(calls) >= EXCESSIVE THEN bonused - PENALTY ELSE bonused

\* base_score after the bonus and the penalty (lines 77-82)
adjusted_score(calls, base) ==
    LET bonused == IF Len(calls) > 0 THEN base + BONUS ELSE base
    IN  IF Len(calls) > EXCESSIVE THEN bonused - PENALTY ELSE bonused

\* mutant: the clamp is dropped
final_score_unclamped(base) == base

final_score(base) == Max(ZERO, Min(ONE, base))

FormatExplanation(total, models, tools, used) ==
    "Found " \o ToString(total) \o " total events: "
    \o ToString(models) \o " model calls, " \o ToString(tools) \o " tool calls. "
    \o "Tools used: " \o used \o "."

\* mutant: the "none" fallback is dropped
explanation_no_fallback(evs, mevs, calls) ==
    FormatExplanation(Len(evs), Len(mevs), Len(calls), Join(calls))

explanation(evs, mevs, calls) ==
    FormatExplanation(Len(evs), Len(mevs), Len(calls),
                      IF Len(calls) > 0 THEN Join(calls) ELSE "none")

process_metadata(evs, mevs, tevs, calls) ==
    [total_events |-> Len(evs),
     model_events |-> Len(mevs),
     tool_events  |-> Len(tevs),
     tools_used   |-> calls]

process_aware_score(evs, tgt, compl) ==
    LET tevs  == tool_events(evs)
        mevs  == model_events(evs)
        calls == tool_calls(tevs)
    IN  [value       |-> final_score(adjusted_score(calls, base_score(tgt, compl))),
         answer      |-> compl,
         explanation |-> explanation(evs, mevs, calls),
         metadata    |-> process_metadata(evs, mevs, tevs, calls)]

-----------------------------------------------------------------------------
(* step_verification_scorer.score *)

\* mutant: any tool call counts as the required one
add_tool_used_any(tevs) == Len(tevs) > 0

add_tool_used(tevs) == \E i \in 1..Len(tevs) : tevs[i].function = "add"

correct(tgt, compl) == Contains(compl, tgt)

score_value(ok, used) ==
    IF ok /\ used THEN ONE
    ELSE IF ok /\ ~used THEN HALF
    ELSE IF ~ok /\ used THEN PARTIAL
    ELSE ZERO

\* mutant: the two mixed rows carry each other's text
step_explanation_swapped(ok, used) ==
    IF ok /\ used THEN "Correct answer and used required add tool"
    ELSE IF ok /\ ~used THEN "Used required add tool but incorrect answer"
    ELSE IF ~ok /\ used THEN "Correct answer but did not use required add tool"
    ELSE "Incorrect answer and did not use required add tool"

step_explanation(ok, used) ==
    IF ok /\ used THEN "Correct answer and used required add tool"
    ELSE IF ok /\ ~used THEN "Correct answer but did not use required add tool"
    ELSE IF ~ok /\ used THEN "Used required add tool but incorrect answer"
    ELSE "Incorrect answer and did not use required add tool"

step_metadata(used) == [add_tool_used |-> used]

\* mutant: the metadata records the correctness flag
step_verification_score_meta_correct(evs, tgt, compl) ==
    LET used == add_tool_used(tool_events(evs))
        ok   == correct(tgt, compl)
    IN  [value       |-> score_value(ok, used),
         answer      |-> compl,
         explanation |-> step_explanation(ok, used),
         metadata    |-> step_metadata(ok)]

step_verification_score(evs, tgt, compl) ==
    LET used == add_tool_used(tool_events(evs))
        ok   == correct(tgt, compl)
    IN  [value       |-> score_value(ok, used),
         answer      |-> compl,
         explanation |-> step_explanation(ok, used),
         metadata    |-> step_metadata(used)]

-----------------------------------------------------------------------------
(* State machine: the inputs of one scoring call, and the Score returned *)

NoScore == [value |-> -1]

Init ==
    /\ events \in SeqsUpTo(Events, MaxEvents)
    /\ target \in SeqsUpTo(Chars, MaxTargetLen)
    /\ completion \in SeqsUpTo(Chars, MaxCompletionLen)
    /\ scorer = "none"
    /\ score = NoScore

ProcessAwareScore ==
    /\ scorer' = "process_aware_scorer"
    /\ score' = process_aware_score(events, target, completion)
    /\ UNCHANGED <<events, target, completion>>

StepVerificationScore ==
    /\ scorer' = "step_verification_scorer"
    /\ score' = step_verification_score(events, target, completion)
    /\ UNCHANGED <<events, target, completion>>

Next == ProcessAwareScore \/ StepVerificationScore

Spec == Init /\ [][Next]_vars

ScoredA == scorer = "process_aware_scorer"
ScoredB == scorer = "step_verification_scorer"

-----------------------------------------------------------------------------
(* Vocabulary of the properties, stated on the raw inputs *)

ToolIndices == {i \in 1..Len(events) : events[i].kind = "ToolEvent"}
ModelIndices == {i \in 1..Len(events) : events[i].kind = "ModelEvent"}
OtherIndices == (1..Len(events)) \ (ToolIndices \cup ModelIndices)
NumTools == Cardinality(ToolIndices)

\* the target occurs in the completion: completion = prefix \o target \o suffix
TargetInCompletion ==
    \E i \in 1..(Len(completion) + 1) :
        /\ i + Len(target) - 1 <= Len(completion)
        /\ SubSeq(completion, i, i + Len(target) - 1) = target

\* some tool event of the log names the add tool
AddInLog == \E i \in ToolIndices : events[i].function = "add"

Base == IF TargetInCompletion THEN 10 ELSE 0

Clamp(x) == IF x < 0 THEN 0 ELSE IF x > 10 THEN 10 ELSE x

InsertAt(s, i, e) == SubSeq(s, 1, i - 1) \o <<e>> \o SubSeq(s, i, Len(s))

\* the log with one more tool event, at any position
OneMoreTool == {InsertAt(events, i, ToolEvent(f)) :
                    i \in 1..(Len(events) + 1), f \in FunctionNames}

PreClamp(evs) ==
    adjusted_score(tool_calls(tool_events(evs)), base_score(target, completion))

-----------------------------------------------------------------------------
\* C1: the value returned by process_aware_scorer always lies in [0.0, 1.0]
C1_ValueInUnitInterval ==
    ScoredA => score.value >= 0 /\ score.value <= 10

\* the clamp acts: four tool calls and a wrong answer give -0.1 before clamping
C1_Witness ==
    ScoredA /\ NumTools > 3 /\ ~TargetInCompletion /\ PreClamp(events) < 0

\* C2: the value of process_aware_scorer is clamp(base + bonus - penalty, 0, 1),
\* bonus 0.1 iff at least one tool event, penalty 0.2 iff more than three, both
\* stacked; a wrong answer with four or more tool calls scores 0.0
C2_ValueFormula ==
    ScoredA =>
        LET bonus   == IF NumTools >= 1 THEN 1 ELSE 0
            penalty == IF NumTools > 3 THEN 2 ELSE 0
        IN  /\ score.value = Clamp(Base + bonus - penalty)
            /\ (NumTools >= 4 /\ ~TargetInCompletion => score.value = 0)

C2_Witness ==
    ScoredA /\ NumTools >= 4 /\ TargetInCompletion /\ score.value = 9

\* C3: the value of step_verification_scorer is given by the decision table on
\* (correct, required_used); only a tool event named add makes required_used true
C3_DecisionTable ==
    ScoredB =>
        /\ score.value = (IF TargetInCompletion /\ AddInLog THEN 10
                          ELSE IF TargetInCompletion /\ ~AddInLog THEN 5
                          ELSE IF ~TargetInCompletion /\ AddInLog THEN 3
                          ELSE 0)
        /\ score.value \in {0, 3, 5, 10}

\* a log with another tool and a model call but no add: the add tool is not used
C3_Witness ==
    /\ ScoredB /\ ~AddInLog /\ TargetInCompletion /\ score.value = 5
    /\ \E i \in ToolIndices : events[i].function = "multiply"
    /\ ModelIndices # {}

\* C4 as stated: the explanation of step_verification_scorer is the table's
\* string, worded "required tool"
C4_ExplanationAsStated ==
    ScoredB =>
        score.explanation =
            (IF TargetInCompletion /\ AddInLog
                THEN "Correct answer and used required tool"
             ELSE IF TargetInCompletion /\ ~AddInLog
                THEN "Correct answer but did not use required tool"
             ELSE IF ~TargetInCompletion /\ AddInLog
                THEN "Used required tool but incorrect answer"
             ELSE "Incorrect answer and did not use required tool")

\* C4 amended: the explanation is the table's string, worded "required add tool"
C4_Explanation ==
    ScoredB =>
        score.explanation =
            (IF TargetInCompletion /\ AddInLog
                THEN "Correct answer and used required add tool"
             ELSE IF TargetInCompletion /\ ~AddInLog
                THEN "Correct answer but did not use required add tool"
             ELSE IF ~TargetInCompletion /\ AddInLog
                THEN "Used required add tool but incorrect answer"
             ELSE "Incorrect answer and did not use required add tool")

C4_Witness ==
    /\ ScoredB /\ ~TargetInCompletion /\ AddInLog
    /\ score.explanation = "Used required add tool but incorrect answer"

\* C5 as stated: answer is the completion and metadata is exactly
\* {required_tool_used: required_used}
C5_MetadataAsStated ==
    ScoredB =>
        /\ score.answer = completion
        /\ DOMAIN score.metadata = {"required_tool_used"}
        /\ score.metadata["required_tool_used"] = AddInLog

\* C5 amended: answer is the completion and metadata is exactly
\* {add_tool_used: required_used}
C5_Metadata ==
    ScoredB =>
        /\ score.answer = completion
        /\ DOMAIN score.metadata = {"add_tool_used"}
        /\ score.metadata["add_tool_used"] = AddInLog

\* a correct answer without the add tool: the flag differs from correctness
C5_Witness ==
    /\ ScoredB /\ TargetInCompletion /\ ~AddInLog /\ Len(completion) > 0
    /\ score.metadata = [add_tool_used |-> FALSE]

\* C6: total_events is the length of the log; tool_events + model_events is at
\* most total_events, with equality iff the log holds no event of another kind;
\* such an event is counted in total_events only
C6_CountInvariant ==
    ScoredA =>
        LET m == score.metadata
        IN  /\ m.total_events = Len(events)
            /\ m.tool_events + m.model_events <= m.total_events
            /\ (m.tool_events + m.model_events = m.total_events <=> OtherIndices = {})
            /\ m.tool_events = Cardinality(ToolIndices)
            /\ m.model_events = Cardinality(ModelIndices)

C6_Witness ==
    /\ ScoredA /\ OtherIndices # {} /\ ToolIndices # {} /\ ModelIndices # {}
    /\ score.metadata.tool_events + score.metadata.model_events
         < score.metadata.total_events

\* C7: tools_used is the function names of exactly the tool events, in log
\* order, duplicates kept; its length is tool_events and the number of tool
\* calls the explanation reports
C7_ToolsUsed ==
    ScoredA =>
        LET used == score.metadata.tools_used
        IN  /\ Len(used) = Cardinality(ToolIndices)
            /\ \A i \in ToolIndices :
                 used[Cardinality({j \in ToolIndices : j <= i})] = events[i].function
            /\ Len(used) = score.metadata.tool_events
            /\ \E shown \in {"none", Join(used)} :
                 score.explanation =
                     FormatExplanation(Len(events), Cardinality(ModelIndices),
                                       Len(used), shown)

\* a duplicate and a change of name, with other events in between
C7_Witness ==
    /\ ScoredA
    /\ score.metadata.tools_used = <<"add", "multiply", "add">>
    /\ Len(events) > 3

\* the tools-used part of an explanation of this log reads 'none', whatever
\* number of tool calls it reports
ShowsNone(text) ==
    \E t \in 0..Len(events) :
        text = FormatExplanation(Len(events), Cardinality(ModelIndices), t, "none")

C8_EmptyLog ==
    events = <<>> =>
        /\ score.value = Base
        /\ score.metadata.tools_used = <<>>
        /\ score.explanation =
             "Found 0 total events: 0 model calls, 0 tool calls. Tools used: none."

\* C8 as stated: on the empty log the value is the base score, tools_used is
\* empty and the explanation reports zeros and 'none'; for any input the
\* explanation shows 'none' exactly when no tool event is in the log
C8_NoneAsStated ==
    ScoredA =>
        /\ C8_EmptyLog
        /\ (ShowsNone(score.explanation) <=> ToolIndices = {})

\* C8 amended: as stated, except that the explanation shows 'none' exactly when
\* no tool event is in the log or its only tool event has function name 'none'
C8_None ==
    ScoredA =>
        /\ C8_EmptyLog
        /\ (ShowsNone(score.explanation) <=>
              \/ ToolIndices = {}
              \/ /\ NumTools = 1
                 /\ \A i \in ToolIndices : events[i].function = "none")

C8_Witness ==
    /\ ScoredA /\ events = <<>> /\ TargetInCompletion /\ Len(target) > 0
    /\ score.value = 10 /\ ShowsNone(score.explanation)

\* index in the log after which the final answer is fixed: the last model call
FinalAnswerIndex ==
    IF ModelIndices = {} THEN Len(events) + 1
    ELSE CHOOSE i \in ModelIndices : \A j \in ModelIndices : j <= i

\* C9: the add tool is reported as used only when an add tool event occurs in
\* the log before the model's final answer is produced
C9_AddBeforeAnswer ==
    ScoredB /\ score.metadata.add_tool_used =>
        \E i \in ToolIndices :
            events[i].function = "add" /\ i < FinalAnswerIndex

\* C10 as stated: with target and completion fixed, a first tool call raises the
\* score by 0.1 before clamping, and a fourth tool call lowers the value by 0.2
C10_StepsAsStated ==
    ScoredA /\ NumTools \in {0, 3} =>
        \A more \in OneMoreTool :
            /\ NumTools = 0 => PreClamp(more) = PreClamp(events) + 1
            /\ NumTools = 3 =>
                 process_aware_score(more, target, completion).value
                     = score.value - 2

\* C10 amended: a first tool call raises the score by 0.1 before clamping; a
\* fourth tool call lowers it by 0.2 before clamping, and lowers the returned
\* value by less than 0.2
C10_Steps ==
    ScoredA /\ NumTools \in {0, 3} =>
        \A more \in OneMoreTool :
            LET after == process_aware_score(more, target, completion).value
            IN  /\ NumTools = 0 => PreClamp(more) = PreClamp(events) + 1
                /\ NumTools = 3 =>
                     /\ PreClamp(more) = PreClamp(events) - 2
                     /\ after < score.value
                     /\ after > score.value - 2

C10_Witness ==
    /\ ScoredA /\ NumTools = 3 /\ TargetInCompletion /\ score.value = 10
    /\ \E more \in OneMoreTool :
         process_aware_score(more, target, completion).value = 9

====
